---- MODULE Spec2Model ----
(***************************************************************************)
(* Model of the route persistence handlers of naviga8: POST /save-route,   *)
(* GET /routes and DELETE /delete-route/:id over one collection of Route   *)
(* documents.  src/index.js holds two revisions of the server one after    *)
(* the other; the model follows the later one (lines 102-292), the one     *)
(* with per-user routes, the 200-character cap and the 50-route limit.     *)
(* Mongoose is taken as version 5 or later (the connect options name it):  *)
(* the setters of a schema path (trim) run on documents and on the values  *)
(* of a query filter alike.  userId values are strings, not query          *)
(* operator objects.                                                       *)
(*                                                                         *)
(* A request is a process: the synchronous part of a handler up to its     *)
(* first await is one step, and every awaited store operation (findOne,    *)
(* save, find, findOneAndDelete) together with the code that follows it up *)
(* to the next await or the response is one step.  Steps of different      *)
(* requests interleave freely.                                             *)
(*                                                                         *)
(* Strings are sequences of one-character strings; " " stands for any      *)
(* whitespace character.  Values of a JSON body or of a query string are   *)
(* records [kind, akind, s]: kind is the JavaScript type of the value,     *)
(* akind the type of its .address property when the value is an object.    *)
(***************************************************************************)
EXTENDS Integers, Sequences, FiniteSets, TLC

VARIABLES store, nextId, clock, req, removedBy

vars == <<store, nextId, clock, req, removedBy>>

\* ---------------------------------------------------------------- bounds
MaxId == 2         \* documents ever inserted in one run
PreExtra == 2      \* SpecList: a user owns up to ListLimit + PreExtra

\* ------------------------------------------------------- program constants
MaxAddrLen == 200  \* substring(0, 200)
ListLimit == 50    \* .limit(50)

\* ------------------------------------------------------------ JS values
Undefined == [kind |-> "undefined", akind |-> "none", s |-> <<>>]
Null == [kind |-> "null", akind |-> "none", s |-> <<>>]
Num == [kind |-> "number", akind |-> "none", s |-> <<>>]
Str(s) == [kind |-> "string", akind |-> "none", s |-> s]
Obj(a) == [kind |-> "object", akind |-> a.kind, s |-> a.s]

\* faulty variant of Truthy: only undefined and null count as absent
TruthyLoose(v) == v.kind \notin {"undefined", "null"}

\* !v for the values above (Num stands for a non-zero number)
Truthy(v) ==
  \/ v.kind = "string" /\ v.s # <<>>
  \/ v.kind \in {"number", "object"}

\* v.address : a property read on a string or number primitive is undefined
AddressOf(v) ==
  IF v.kind = "object"
  THEN [kind |-> v.akind, akind |-> "none", s |-> v.s]
  ELSE Undefined

\* v || ''
OrEmpty(v) == IF Truthy(v) THEN v ELSE Str(<<>>)

\* ------------------------------------------------------------- strings
IsWs(c) == c = " "

Min(a, b) == IF a < b THEN a ELSE b

\* String.prototype.trim
trim(s) ==
  LET keep == {i \in 1..Len(s) : ~IsWs(s[i])}
  IN IF keep = {} THEN <<>>
     ELSE LET lo == CHOOSE i \in keep : \A j \in keep : i <= j
              hi == CHOOSE i \in keep : \A j \in keep : j <= i
          IN SubSeq(s, lo, hi)

\* String.prototype.substring(0, n)
substring(s, n) == SubSeq(s, 1, Min(Len(s), n))

\* faulty variant of sanitize: the cap applied before the trim
sanitizeCutFirst(v) ==
  IF v.kind # "string" THEN <<>>
  ELSE trim(substring(v.s, MaxAddrLen))

\* const sanitize = (str) => ...
sanitize(v) ==
  IF v.kind # "string" THEN <<>>
  ELSE substring(trim(v.s), MaxAddrLen)

\* typeof x === 'string' ? sanitize(x) : sanitize(x.address || '')
addressOfField(v) ==
  IF v.kind = "string" THEN sanitize(v) ELSE sanitize(OrEmpty(AddressOf(v)))

\* schema option trim: true : the setter Mongoose runs on a String path when
\* a document is built and when a query filter is cast
schemaTrim(s) == trim(s)

\* schema option required: true on a String path
schemaRequired(s) == s # <<>>

\* ------------------------------------------------------------ documents
\* new Route({userId, origin: {address}, destination: {address}}) : the
\* document as the schema's setters leave it (before _id and timestamps)
NewRoute(userId, originAddress, destinationAddress) ==
  [userId |-> userId.s,
   origin |-> schemaTrim(originAddress),
   destination |-> schemaTrim(destinationAddress)]

\* document validation run by save() before anything is sent to the store
Validates(doc) ==
  /\ schemaRequired(doc.userId)
  /\ schemaRequired(doc.origin)
  /\ schemaRequired(doc.destination)

\* faulty variant of MatchesRoute: the filter compared as given, without the schema's
\* setters
MatchesRouteUncast(rec, userId, originAddress, destinationAddress) ==
  /\ rec.userId = userId.s
  /\ rec.origin = originAddress
  /\ rec.destination = destinationAddress

\* the filter of Route.findOne({userId, "origin.address", "destination.address"})
\* after query casting, applied to one stored document
MatchesRoute(rec, userId, originAddress, destinationAddress) ==
  /\ rec.userId = userId.s
  /\ rec.origin = schemaTrim(originAddress)
  /\ rec.destination = schemaTrim(destinationAddress)

\* the filter {userId: userId} of Route.find
MatchesUser(rec, userId) == rec.userId = userId.s

\* faulty variant of MatchesOwned: the filter of findByIdAndDelete, without the owner
MatchesById(rec, id, userId) == rec.id = id

\* the filter {_id: id, userId: userId} of Route.findOneAndDelete
MatchesOwned(rec, id, userId) == rec.id = id /\ rec.userId = userId.s

\* .sort({createdAt: -1}) : every order of S by createdAt descending; the
\* order of documents with equal createdAt is left to the store
RECURSIVE SortedByCreatedAtDesc(_)
SortedByCreatedAtDesc(S) ==
  IF S = {} THEN {<<>>}
  ELSE LET newest == {x \in S : \A y \in S : y.createdAt <= x.createdAt}
       IN UNION {{<<x>> \o t : t \in SortedByCreatedAtDesc(S \ {x})} : x \in newest}

\* faulty variant of limit: no cap
NoLimit(q, n) == q

\* .limit(n)
limit(q, n) == SubSeq(q, 1, Min(Len(q), n))

\* Route.find({userId}).sort({createdAt: -1}).limit(50) : the possible results
FindRoutes(S, userId) ==
  {limit(q, ListLimit) : q \in SortedByCreatedAtDesc({x \in S : MatchesUser(x, userId)})}

\* ------------------------------------------------------------- requests
Idle ==
  [op |-> "none", pc |-> "idle", userId |-> Undefined, origin |-> Undefined,
   destination |-> Undefined, id |-> 0, status |-> 0, body |-> <<>>, ops |-> 0,
   seen |-> {}, failed |-> FALSE]

Free(r) == req[r].pc \in {"idle", "done"}

InFlight(r) == ~Free(r)

\* inserts still to come from requests that passed the field checks
PendingSaves == Cardinality({r \in DOMAIN req : req[r].pc \in {"findOne", "save"}})

Respond(r, code, body, ops) ==
  req' = [req EXCEPT ![r].pc = "done", ![r].status = code, ![r].body = body,
                     ![r].ops = ops]

\* an awaited store operation rejects: the catch block of the handler.
\* failed is a history field: the 500 came from the store.
StoreFailed(r) ==
  req' = [req EXCEPT ![r].pc = "done", ![r].status = 500, ![r].body = <<>>,
                     ![r].ops = @ + 1, ![r].failed = TRUE]

\* POST /save-route, up to the first await
SaveRoute(r, userId, origin, destination) ==
  /\ Free(r)
  /\ nextId + PendingSaves <= MaxId
  /\ LET q == [Idle EXCEPT !.op = "save", !.userId = userId, !.origin = origin,
                           !.destination = destination]
     IN IF ~Truthy(userId) \/ ~Truthy(origin) \/ ~Truthy(destination)
        THEN req' = [req EXCEPT ![r] = [q EXCEPT !.pc = "done", !.status = 400]]
        ELSE req' = [req EXCEPT ![r] = [q EXCEPT !.pc = "findOne"]]
  /\ UNCHANGED <<store, nextId, clock, removedBy>>

\* await Route.findOne(...) and the 409 answer
FindOne(r) ==
  /\ req[r].pc = "findOne"
  /\ \E ok \in BOOLEAN :
       IF ~ok THEN StoreFailed(r)
       ELSE IF \E rec \in store :
                 MatchesRoute(rec, req[r].userId, addressOfField(req[r].origin),
                              addressOfField(req[r].destination))
       THEN Respond(r, 409, <<>>, req[r].ops + 1)
       ELSE req' = [req EXCEPT ![r].pc = "save", ![r].ops = @ + 1]
  /\ UNCHANGED <<store, nextId, clock, removedBy>>

\* faulty variant of NewId: the lowest _id no stored document has
ReusedId == CHOOSE i \in 1..(Cardinality(store) + 1) : \A rec \in store : rec.id # i

\* the _id the store gives a new document: ObjectIds are never given twice
NewId == nextId

\* faulty variant of InsertFailed: the write reached the store before the error
InsertFailedAfterWrite(r, doc, dt) ==
  /\ store' = store \cup {[id |-> nextId, userId |-> doc.userId,
                           origin |-> doc.origin, destination |-> doc.destination,
                           createdAt |-> clock + dt]}
  /\ nextId' = nextId + 1
  /\ clock' = clock + dt
  /\ StoreFailed(r)

\* await newRoute.save() rejected by the store: the catch block
InsertFailed(r, doc, dt) ==
  /\ StoreFailed(r)
  /\ UNCHANGED <<store, nextId, clock>>

\* faulty variant of Inserted: an insert that checks the triple again, as a unique
\* index would
InsertedIfAbsent(r, doc, dt) ==
  IF \E rec \in store : /\ rec.userId = doc.userId
                        /\ rec.origin = doc.origin
                        /\ rec.destination = doc.destination
  THEN /\ Respond(r, 409, <<>>, req[r].ops + 1)
       /\ UNCHANGED <<store, nextId, clock>>
  ELSE LET saved == [id |-> nextId, userId |-> doc.userId, origin |-> doc.origin,
                     destination |-> doc.destination, createdAt |-> clock + dt]
       IN /\ store' = store \cup {saved}
          /\ nextId' = nextId + 1
          /\ clock' = clock + dt
          /\ Respond(r, 200, <<saved>>, req[r].ops + 1)

\* await newRoute.save() fulfilled and res.json(savedRoute)
Inserted(r, doc, dt) ==
  LET saved == [id |-> NewId, userId |-> doc.userId, origin |-> doc.origin,
                destination |-> doc.destination, createdAt |-> clock + dt]
  IN /\ store' = store \cup {saved}
     /\ nextId' = nextId + 1
     /\ clock' = clock + dt
     /\ Respond(r, 200, <<saved>>, req[r].ops + 1)

\* new Route(...), await newRoute.save() and the answer; dt is the time since
\* the last insert in ms, the resolution of createdAt.  A document that fails
\* validation makes save() reject before anything is sent to the store.
Save(r, dt) ==
  /\ req[r].pc = "save"
  /\ LET doc == NewRoute(req[r].userId, addressOfField(req[r].origin),
                         addressOfField(req[r].destination))
     IN IF ~Validates(doc)
        THEN /\ Respond(r, 500, <<>>, req[r].ops)
             /\ UNCHANGED <<store, nextId, clock>>
        ELSE \E ok \in BOOLEAN :
               IF ok THEN Inserted(r, doc, dt) ELSE InsertFailed(r, doc, dt)
  /\ UNCHANGED removedBy

\* GET /routes, up to the await
Routes(r, userId) ==
  /\ Free(r)
  /\ LET q == [Idle EXCEPT !.op = "list", !.userId = userId]
     IN IF ~Truthy(userId)
        THEN req' = [req EXCEPT ![r] = [q EXCEPT !.pc = "done", !.status = 400]]
        ELSE req' = [req EXCEPT ![r] = [q EXCEPT !.pc = "find"]]
  /\ UNCHANGED <<store, nextId, clock, removedBy>>

\* await Route.find(...).sort(...).limit(50) and res.json(routes)
Find(r) ==
  /\ req[r].pc = "find"
  /\ \E ok \in BOOLEAN :
       IF ~ok THEN StoreFailed(r)
       ELSE \E routes \in FindRoutes(store, req[r].userId) :
              Respond(r, 200, routes, req[r].ops + 1)
  /\ UNCHANGED <<store, nextId, clock, removedBy>>

\* the documents the filter {_id: id, userId: userId} matches
Owned(S, id, userId) == {rec \in S : MatchesOwned(rec, id, userId)}

\* DELETE /delete-route/:id, up to the await.  id 0 stands for a path
\* segment that is no ObjectId; the router never passes an empty id.
\* seen is a history field: what the filter matched when the request arrived.
DeleteRoute(r, userId, id) ==
  /\ Free(r)
  /\ LET q == [Idle EXCEPT !.op = "delete", !.userId = userId, !.id = id,
                           !.seen = Owned(store, id, userId)]
     IN IF ~Truthy(userId)
        THEN req' = [req EXCEPT ![r] = [q EXCEPT !.pc = "done", !.status = 400]]
        ELSE req' = [req EXCEPT ![r] = [q EXCEPT !.pc = "findOneAndDelete"]]
  /\ UNCHANGED <<store, nextId, clock, removedBy>>

\* faulty variant of Deleted: the match read when the request arrived, as a find
\* followed by a separate remove would use it
DeletedStale(r) == req[r].seen

\* what findOneAndDelete finds and removes, in one store step
Deleted(r) == Owned(store, req[r].id, req[r].userId)

\* await Route.findOneAndDelete(...) and the 404 / 200 answer.  An id that is
\* no ObjectId makes the query reject when its filter is cast.
FindOneAndDelete(r) ==
  /\ req[r].pc = "findOneAndDelete"
  /\ IF req[r].id = 0
     THEN /\ Respond(r, 500, <<>>, req[r].ops)
          /\ UNCHANGED <<store, removedBy>>
     ELSE \E ok \in BOOLEAN :
            IF ~ok
            THEN /\ StoreFailed(r)
                 /\ UNCHANGED <<store, removedBy>>
            ELSE IF Deleted(r) = {}
                 THEN /\ Respond(r, 404, <<>>, req[r].ops + 1)
                      /\ UNCHANGED <<store, removedBy>>
                 ELSE /\ store' = store \ Deleted(r)
                      /\ removedBy' = [removedBy EXCEPT ![req[r].id] = r]
                      /\ Respond(r, 200, <<>>, req[r].ops + 1)
  /\ UNCHANGED <<nextId, clock>>

\* ------------------------------------------------------------- inputs
Rep(c, n) == [i \in 1..n |-> c]

\* request slots: at most two requests are in flight at once
Slots == {1, 2}

Ids == 0..MaxId

U == Str(<<"u">>)
V == Str(<<"v">>)

\* userId values of a body or query: absent, null, empty, two users
UserIds == {Undefined, Null, Str(<<>>), U, V}

\* origin / destination values of the concurrent specification
Places == {Str(<<"a">>), Obj(Str(<<" ", "a">>))}

\* an address one character longer than the cap whose 200th character is
\* whitespace, and the address it is stored as
LongCut == Rep("a", MaxAddrLen - 1) \o <<" ", "b">>
LongKept == Rep("a", MaxAddrLen - 1)

\* origin / destination values of the sequential specification: every
\* JavaScript shape the handler distinguishes
Fields ==
  {Undefined, Null, Num, Str(<<>>), Str(<<" ", " ">>), Str(<<"a">>),
   Str(<<" ", "a", " ", "b", " ">>), Obj(Str(<<" ", "a", " ", "b", " ">>)),
   Obj(Undefined), Obj(Num), Obj(Str(<<>>)), Obj(Str(<<" ">>)),
   Str(LongCut), Obj(Str(LongCut)), Str(LongKept),
   Str(<<" ">> \o Rep("b", MaxAddrLen + 1))}

\* bodies of the sequential specification: one field varies, the other is plain
Bodies ==
  {<<o, Str(<<"c">>)>> : o \in Fields} \cup {<<Str(<<"c">>), d>> : d \in Fields}

\* ------------------------------------------------------ specifications
Init ==
  /\ store = {}
  /\ nextId = 1
  /\ clock = 0
  /\ req = [r \in Slots |-> Idle]
  /\ removedBy = [i \in 1..MaxId |-> 0]

\* requests handled concurrently
Next ==
  \E r \in Slots :
    \/ \E u \in {U, V}, o \in Places : SaveRoute(r, u, o, Str(<<"c">>))
    \/ FindOne(r)
    \/ Save(r, 1)
    \/ \E u \in {U, V} : Routes(r, u)
    \/ Find(r)
    \/ \E u \in {U, V}, id \in 1..MaxId : DeleteRoute(r, u, id)
    \/ FindOneAndDelete(r)

Spec == Init /\ [][Next]_vars

\* origin values of the sequential specification: two shapes of one address,
\* and two inputs that differ before and agree after the cap and the trim
SeqPlaces == {Str(<<"a">>), Obj(Str(<<" ", "a">>)), Str(LongCut), Str(LongKept)}

\* requests handled one at a time: slot 1 starts a request only when its
\* previous one has answered, and slot 2 stays idle
NextSeq ==
  \/ \E u \in {U, V}, o \in SeqPlaces : SaveRoute(1, u, o, Str(<<"c">>))
  \/ FindOne(1)
  \/ \E dt \in {0, 1} : Save(1, dt)
  \/ \E u \in {Undefined, U, V} : Routes(1, u)
  \/ Find(1)
  \/ \E u \in {Undefined, U, V}, id \in Ids : DeleteRoute(1, u, id)
  \/ FindOneAndDelete(1)

SpecSeq == Init /\ [][NextSeq]_vars

\* one create request against the empty store, over every input shape
NextCreate ==
  \/ /\ req[1].pc = "idle"
     /\ \E u \in UserIds, b \in Bodies : SaveRoute(1, u, b[1], b[2])
  \/ FindOne(1)
  \/ Save(1, 1)

SpecCreate == Init /\ [][NextCreate]_vars

\* a store as ListLimit + PreExtra creates handled one at a time leave it: n
\* documents of user u, then m of user v; document tie (when not 0) was
\* created in the same millisecond as the one before it
PreCreatedAt(i, tie) == IF tie # 0 /\ i >= tie THEN i - 1 ELSE i

PreStore(n, m, tie) ==
  {[id |-> i, userId |-> IF i <= n THEN U.s ELSE V.s, origin |-> Rep("a", i),
    destination |-> <<"c">>, createdAt |-> PreCreatedAt(i, tie)] : i \in 1..(n + m)}

InitList ==
  \E n \in 0..(ListLimit + PreExtra), m \in 0..1 :
    \E tie \in {0} \cup ({2, n - ListLimit + 1, n} \cap 2..n) :
      /\ store = PreStore(n, m, tie)
      /\ nextId = n + m + 1
      /\ clock = PreCreatedAt(n + m, tie)
      /\ req = [r \in Slots |-> Idle]
      /\ removedBy = [i \in 1..MaxId |-> 0]

\* list requests against a store of any size up to ListLimit + PreExtra
NextList ==
  \/ \E u \in {Undefined, U, V} : Routes(1, u)
  \/ Find(1)

SpecList == InitList /\ [][NextList]_vars

\* ------------------------------------------------------------ properties
Triple(rec) == <<rec.userId, rec.origin, rec.destination>>

NoDuplicate(S) == \A x, y \in S : Triple(x) = Triple(y) => x = y

\* the normalized triple of a create request is stored
TripleStored(S, q) ==
  \E rec \in S :
    Triple(rec) = Triple(NewRoute(q.userId, addressOfField(q.origin),
                                  addressOfField(q.destination)))

\* missing, null or empty
Absent(v) == v \in {Undefined, Null, Str(<<>>)}

\* request r takes a store step and answers
Answers(r) == InFlight(r) /\ req'[r].pc = "done"

\* request r arrives
Arrives(r) == Free(r) /\ req'[r] # req[r]

Range(q) == {q[i] : i \in 1..Len(q)}

\* C1: with requests handled one at a time, no two stored records ever share
\* a normalized (userId, origin.address, destination.address) triple, and a
\* create whose triple is stored when its existence check runs inserts
\* nothing: it answers 409 (500 when the store fails the check) and the
\* store is unchanged.
C1_SequentialNoDuplicate ==
  [][/\ NoDuplicate(store')
     /\ \A r \in Slots :
          (req[r].pc = "findOne" /\ req'[r] # req[r] /\ TripleStored(store, req[r]))
            => /\ req'[r].pc = "done"
               /\ req'[r].status = IF req'[r].failed THEN 500 ELSE 409
               /\ store' = store]_vars

\* a second create of a stored triple, given in another shape, answered 409
C1_Witness ==
  /\ req[1].op = "save" /\ req[1].pc = "done" /\ req[1].status = 409
  /\ req[1].origin = Str(LongCut)
  /\ \E rec \in store : rec.origin = LongKept /\ rec.userId = req[1].userId.s

\* C2: the insert is a store step of its own that does not check again: a
\* create that passed its existence check and whose triple has been stored
\* since by a concurrent create still inserts a second record with that
\* triple and answers 200 (unless the store fails the insert).
C2_CheckThenInsertRace ==
  [][\A r \in Slots :
       (req[r].pc = "save" /\ Answers(r) /\ ~req'[r].failed
        /\ TripleStored(store, req[r]))
         => /\ req'[r].status = 200
            /\ req'[r].body[1] \in store' \ store
            /\ \E rec \in store : Triple(rec) = Triple(req'[r].body[1])]_vars

\* both concurrent creates of one triple answered 200 and both records are stored
C2_Witness ==
  /\ \A r \in Slots : req[r].op = "save" /\ req[r].pc = "done" /\ req[r].status = 200
  /\ req[1].body[1] \in store /\ req[2].body[1] \in store
  /\ req[1].body[1] # req[2].body[1]
  /\ Triple(req[1].body[1]) = Triple(req[2].body[1])
  /\ ~NoDuplicate(store)

\* C3: a delete whose id names a stored record owned by another userId
\* changes nothing in the store and answers 404 (500 when the store fails).
C3_DeleteNotOwned ==
  [][\A r \in Slots :
       (req[r].pc = "findOneAndDelete" /\ Answers(r)
        /\ \E rec \in store : rec.id = req[r].id /\ rec.userId # req[r].userId.s)
         => /\ store' = store
            /\ req'[r].status = IF req'[r].failed THEN 500 ELSE 404]_vars

\* a delete by another user answered 404 and the record is still stored
C3_Witness ==
  \E r \in Slots :
    /\ req[r].op = "delete" /\ req[r].pc = "done" /\ req[r].status = 404
    /\ \E rec \in store : rec.id = req[r].id /\ rec.userId # req[r].userId.s

\* the result of list request for userId u over the stored records S
ListResult(S, u, body) ==
  LET mine == {x \in S : x.userId = u.s}
      got == Range(body)
  IN /\ got \subseteq mine
     /\ Cardinality(got) = Len(body)
     /\ \A i, j \in 1..Len(body) : i < j => body[i].createdAt >= body[j].createdAt
     /\ Len(body) = Min(Cardinality(mine), ListLimit)
     /\ \A x \in mine \ got : \A y \in got : x.createdAt <= y.createdAt

\* C4: a list answers with records of the requested userId only, each once,
\* ordered by createdAt descending; all N of them when the user owns
\* N <= 50, and otherwise 50 of them, none older than a record left out.
C4_ListNewestFifty ==
  [][\A r \in Slots :
       (req[r].pc = "find" /\ Answers(r) /\ req'[r].status = 200)
         => ListResult(store, req[r].userId, req'[r].body)]_vars

\* a list for a user who owns more than 50 records answered with 50
C4_Witness ==
  /\ req[1].op = "list" /\ req[1].pc = "done" /\ req[1].status = 200
  /\ Len(req[1].body) = ListLimit
  /\ Cardinality({x \in store : x.userId = req[1].userId.s}) > ListLimit

\* the address a create was given: the string, or the object's address
Given(v) == v.s

\* C5 as stated: the stored address is the given one trimmed, then cut
AddressAsStated(v) == substring(trim(Given(v)), MaxAddrLen)

\* C5 as amended: ... and trimmed again after the cut
AddressAsStored(v) == trim(substring(trim(Given(v)), MaxAddrLen))

\* C5 (as stated): after a successful create the returned and the persisted
\* record carry, for origin and destination alike and for both input shapes,
\* the given address trimmed and then cut to 200 characters.
C5_AddressTrimmedThenCut ==
  \A r \in Slots :
    (req[r].op = "save" /\ req[r].pc = "done" /\ req[r].status = 200)
      => /\ req[r].body[1].origin = AddressAsStated(req[r].origin)
         /\ req[r].body[1].destination = AddressAsStated(req[r].destination)
         /\ req[r].body[1] \in store

\* C5 (amended): ... the given address trimmed, cut to 200 characters and
\* trimmed again, whichever shape it was given in.
C5_AddressTrimmedCutTrimmed ==
  \A r \in Slots :
    (req[r].op = "save" /\ req[r].pc = "done" /\ req[r].status = 200)
      => /\ req[r].body[1].origin = AddressAsStored(req[r].origin)
         /\ req[r].body[1].destination = AddressAsStored(req[r].destination)
         /\ req[r].body[1] \in store

\* a create given an object whose address is cut at a whitespace character
C5_Witness ==
  /\ req[1].op = "save" /\ req[1].pc = "done" /\ req[1].status = 200
  /\ req[1].origin = Obj(Str(LongCut))
  /\ req[1].body[1].origin = LongKept
  /\ req[1].body[1] \in store

\* a whitespace-only string, or an object without a non-empty string address
Malformed(v) ==
  \/ v.kind = "string" /\ v.s # <<>> /\ trim(v.s) = <<>>
  \/ v.kind = "object" /\ ~(v.akind = "string" /\ v.s # <<>>)

\* C6: a create with a userId and a malformed origin or destination answers
\* 400 and persists nothing (store failures apart).
C6_MalformedAnswers400 ==
  \A r \in Slots :
    (/\ req[r].op = "save" /\ req[r].pc = "done" /\ ~req[r].failed
     /\ Truthy(req[r].userId) /\ Truthy(req[r].origin) /\ Truthy(req[r].destination)
     /\ (Malformed(req[r].origin) \/ Malformed(req[r].destination)))
      => req[r].status = 400 /\ store = {}

\* C7: a create with userId, origin or destination absent answers 400 at
\* once: no store operation is issued and the store is unchanged.
C7_AbsentFieldAnswers400 ==
  [][\A r \in Slots :
       (/\ Arrives(r) /\ req'[r].op = "save"
        /\ (\/ Absent(req'[r].userId) \/ Absent(req'[r].origin)
            \/ Absent(req'[r].destination)))
         => /\ req'[r].pc = "done"
            /\ req'[r].status = 400
            /\ req'[r].ops = 0
            /\ store' = store]_vars

\* a create with an empty-string origin answered 400 without a store operation
C7_Witness ==
  /\ req[1].op = "save" /\ req[1].pc = "done" /\ req[1].status = 400
  /\ req[1].ops = 0
  /\ Truthy(req[1].userId) /\ req[1].origin = Str(<<>>)

\* C8: a record whose delete answered 200 is never stored again, and no
\* list answered afterwards contains it.
C8_DeletedStaysGone ==
  [][/\ \A rec \in store' : removedBy'[rec.id] = 0
     /\ \A r \in Slots :
          (req[r].pc = "find" /\ Answers(r))
            => \A i \in 1..Len(req'[r].body) : removedBy[req'[r].body[i].id] = 0]_vars

\* after a delete answered 200, a list for the owner answered without the
\* record while the owner has another record created since
C8_Witness ==
  \E r \in Slots : \E id \in 1..MaxId :
    /\ removedBy[id] # 0
    /\ req[r].op = "list" /\ req[r].pc = "done" /\ req[r].status = 200
    /\ Len(req[r].body) = 1
    /\ req[r].body[1].id > id

\* C9: a request whose store operation fails answers 500 in that step, with
\* the store as it was and no further operation issued, then or later; any
\* 500 leaves the store as it was; a create whose existence check fails has
\* issued that one operation and never inserts; no request issues more
\* operations than its handler has awaits.
C9_StoreErrorNoRetry ==
  [][\A r \in Slots :
       /\ (Answers(r) /\ req'[r].failed)
            => /\ req'[r].status = 500
               /\ req'[r].ops = req[r].ops + 1
               /\ (req[r].pc = "findOne" => req'[r].ops = 1)
       /\ (Answers(r) /\ req'[r].status = 500) => store' = store /\ nextId' = nextId
       /\ (InFlight(r) /\ req'[r].failed) => req'[r].pc = "done"
       /\ (req[r].pc = "done" /\ req'[r].pc = "done") => req'[r].ops = req[r].ops
       /\ req'[r].ops <= IF req'[r].op = "save" THEN 2 ELSE 1]_vars

\* a create whose insert failed answered 500 while another record is stored
C9_Witness ==
  \E r \in Slots :
    /\ req[r].op = "save" /\ req[r].pc = "done" /\ req[r].status = 500
    /\ req[r].failed /\ req[r].ops = 2
    /\ store # {}

\* C10: of two deletes in flight together for one record, both with the
\* owner's userId and neither hit by a store failure, exactly one answers
\* 200 and the other 404, and the record is gone.
C10_ConcurrentDeleteOnce ==
  \A r1, r2 \in Slots :
    (/\ r1 # r2
     /\ \A r \in {r1, r2} : /\ req[r].op = "delete" /\ req[r].pc = "done"
                            /\ req[r].seen # {} /\ ~req[r].failed
     /\ req[r1].id = req[r2].id)
      => /\ {req[r1].status, req[r2].status} = {200, 404}
         /\ removedBy[req[r1].id] \in {r1, r2}
         /\ \A rec \in store : rec.id # req[r1].id

\* two deletes that both arrived while the record was stored have answered
C10_Witness ==
  /\ \A r \in Slots : /\ req[r].op = "delete" /\ req[r].pc = "done"
                      /\ req[r].seen # {}
  /\ req[1].id = req[2].id
  /\ req[1].status = 404 /\ req[2].status = 200

====
